---- MODULE Spec2Model ----
(* UnityPlan bot (src/bot.py): the SQLite goal store, the OpenAI helper and  *)
(* the aiogram message handlers, as a state machine.                         *)
(*                                                                           *)
(* A string is a sequence of one-character strings.  An optional string      *)
(* (command.args, message.content) is a sequence of length 0 (None) or 1.    *)
EXTENDS Integers, Sequences, FiniteSets, TLC

\* ------------------------------------------------------------------ bounds
MaxGoals == 3        \* ids the store hands out before the model stops adding
MaxTime == 0         \* datetime.utcnow() yields a value in 0..MaxTime
MaxTextLen == 2      \* longest argument of /ask and /addgoal, longest answer
MaxIdLen == 2        \* longest argument of /done and /del
MaxTasks == 1        \* handler tasks alive at once in Spec
MaxConcTasks == 2    \* handler tasks alive at once in SpecConc

Users == {1, 2}
Tasks == 1..MaxTasks
Times == 0..MaxTime

\* ----------------------------------------------------------------- strings
TextChars == {" ", "a"}
IdChars == {"0", "1", "2", "-", "²"}

Strs(chars, n) == UNION {[1..k -> chars] : k \in 0..n}

None == << >>
Some(s) == << s >>
Opt(S) == {None} \cup {Some(s) : s \in S}

\* `x or ""` for an optional string x
OrEmpty(a) == IF a = None THEN << >> ELSE a[1]

IsSpace(c) == c = " "

RECURSIVE lstrip(_)
lstrip(s) == IF s # << >> /\ IsSpace(Head(s)) THEN lstrip(Tail(s)) ELSE s

RECURSIVE rstrip(_)
rstrip(s) ==
    IF s # << >> /\ IsSpace(s[Len(s)]) THEN rstrip(SubSeq(s, 1, Len(s) - 1)) ELSE s

\* strip() left out
NoStrip(s) == s

\* str.strip()
strip(s) == rstrip(lstrip(s))

AsciiDigits == <<"0", "1", "2", "3", "4", "5", "6", "7", "8", "9">>
IsAsciiDigit(c) == \E i \in DOMAIN AsciiDigits : AsciiDigits[i] = c
DigitValue(c) == (CHOOSE i \in DOMAIN AsciiDigits : AsciiDigits[i] = c) - 1

\* Characters of Unicode category No with the Digit property: str.isdigit()
\* accepts them, int() does not.
IsDigitChar(c) == IsAsciiDigit(c) \/ c = "²"

\* str.isdigit(): non-empty and every character is a digit character
isdigit(s) == s # << >> /\ \A i \in DOMAIN s : IsDigitChar(s[i])

RECURSIVE DecimalValue(_)
DecimalValue(s) ==
    IF s = << >> THEN 0
    ELSE 10 * DecimalValue(SubSeq(s, 1, Len(s) - 1)) + DigitValue(s[Len(s)])

IsDecimal(s) == s # << >> /\ \A i \in DOMAIN s : IsAsciiDigit(s[i])

\* int(s): surrounding whitespace and one leading sign are accepted, then
\* decimal digits; anything else raises ValueError.
IntRaises(s) ==
    LET t == strip(s)
        body == IF t # << >> /\ Head(t) = "-" THEN Tail(t) ELSE t
    IN  ~IsDecimal(body)

int(s) ==
    LET t == strip(s)
    IN  IF t # << >> /\ Head(t) = "-" THEN 0 - DecimalValue(Tail(t))
        ELSE DecimalValue(t)

\* ------------------------------------------------------------- goal store
\* The table is a function from the ids present to rows; sqlite_sequence is
\* the largest id AUTOINCREMENT has ever handed out.
Max(S) == CHOOSE x \in S : \A y \in S : y <= x

NewRow(user_id, text, ts) ==
    [user_id |-> user_id, text |-> text, is_done |-> 0, created_at |-> ts]

\* INTEGER PRIMARY KEY without AUTOINCREMENT: one more than the largest id
\* in the table
RowIdWithoutAutoincrement(g, seq) == Max({0} \cup DOMAIN g) + 1

\* The smallest id not in the table
SmallestFreeRowId(g, seq) == CHOOSE i \in 1..(Cardinality(DOMAIN g) + 1) : i \notin DOMAIN g

\* INTEGER PRIMARY KEY AUTOINCREMENT: one more than the largest id ever used
NextRowId(g, seq) == Max({seq} \cup DOMAIN g) + 1

\* INSERT INTO goals(user_id, text, is_done, created_at) VALUES (?, ?, 0, ?)
InsertGoal(g, id, user_id, text, ts) ==
    [i \in DOMAIN g \cup {id} |-> IF i = id THEN NewRow(user_id, text, ts) ELSE g[i]]

\* WHERE id=?
MatchingAnyOwner(g, goal_id, user_id) == {i \in DOMAIN g : i = goal_id}

\* WHERE id=? AND user_id=?
Matching(g, goal_id, user_id) ==
    {i \in DOMAIN g : i = goal_id /\ g[i].user_id = user_id}

\* UPDATE goals SET is_done = 1 - is_done WHERE id=? AND user_id=?
UpdateDoneToggle(g, goal_id, user_id) ==
    [i \in DOMAIN g |->
        IF i \in Matching(g, goal_id, user_id) THEN [g[i] EXCEPT !.is_done = 1 - @]
        ELSE g[i]]

\* UPDATE goals SET is_done=1 WHERE id=? AND user_id=?
UpdateDone(g, goal_id, user_id) ==
    [i \in DOMAIN g |->
        IF i \in Matching(g, goal_id, user_id) THEN [g[i] EXCEPT !.is_done = 1]
        ELSE g[i]]

\* The matched rows whose is_done the UPDATE changes
ChangedCount(g, goal_id, user_id) ==
    Cardinality({i \in Matching(g, goal_id, user_id) : g[i].is_done = 0})

\* cursor.rowcount after the UPDATE or the DELETE: the rows the WHERE clause
\* matched, whether or not the UPDATE changed their value
RowCount(g, goal_id, user_id) == Cardinality(Matching(g, goal_id, user_id))

\* DELETE FROM goals WHERE id=? AND user_id=?
DeleteRows(g, goal_id, user_id) ==
    [i \in DOMAIN g \ Matching(g, goal_id, user_id) |-> g[i]]

Min(S) == CHOOSE x \in S : \A y \in S : x <= y

\* ORDER BY id ASC
RECURSIVE AscBy(_)
AscBy(S) == IF S = {} THEN << >> ELSE <<Min(S)>> \o AscBy(S \ {Min(S)})

\* ORDER BY id DESC
RECURSIVE DescBy(_)
DescBy(S) == IF S = {} THEN << >> ELSE <<Max(S)>> \o DescBy(S \ {Max(S)})

\* SELECT id, text, is_done FROM goals WHERE user_id=? ORDER BY id DESC
SelectGoals(g, user_id) ==
    LET ids == DescBy({i \in DOMAIN g : g[i].user_id = user_id})
    IN  [k \in DOMAIN ids |->
            [id |-> ids[k], text |-> g[ids[k]].text, is_done |-> g[ids[k]].is_done]]

\* ------------------------------------------------------------------ OpenAI
Apology == <<"apology">>

\* What client.chat.completions.create does: it raises, or it returns a
\* response whose message content is None or a string.
Responses ==
    {[raises |-> TRUE, content |-> None]}
        \cup {[raises |-> FALSE, content |-> c] : c \in Opt(Strs(TextChars, MaxTextLen))}

\* ask_openai catching only what the SDK call raises
AskOpenaiUncaughtContent(resp) ==
    IF resp.raises THEN Apology ELSE strip(OrEmpty(resp.content))

\* ask_openai: the stripped content, or the apology on any exception
\* (None.strip() is an AttributeError, caught like the rest).
ask_openai(resp) ==
    IF resp.raises \/ resp.content = None THEN Apology ELSE strip(resp.content[1])

\* ---------------------------------------------------------------- messages
Labels == {"ask_ai", "my_goals", "new_challenge", "plan_today"}

Msg(cmd, args, text) == [cmd |-> cmd, args |-> args, text |-> text]

\* An inbound message: a command with its arguments (the text is then the
\* command line itself, no button label), or a plain text.
Messages ==
    {Msg(c, None, "other") : c \in {"start", "goals", "unknown"}}
        \cup {Msg(c, a, "other") :
                c \in {"ask", "addgoal"}, a \in Opt(Strs(TextChars, MaxTextLen))}
        \cup {Msg(c, a, "other") :
                c \in {"done", "del"}, a \in Opt(Strs(IdChars, MaxIdLen))}
        \cup {Msg("", None, x) : x \in Labels \cup {"other"}}

\* Handlers in the order the decorators register them while the bot polls.
Registered ==
    <<"start_handler", "cmd_ask", "cmd_addgoal", "cmd_goals", "cmd_done", "cmd_del",
      "handle_buttons">>

\* The filter of each registration
Matches(h, m) ==
    CASE h = "start_handler" -> m.cmd = "start"
      [] h = "cmd_ask" -> m.cmd = "ask"
      [] h = "cmd_addgoal" -> m.cmd = "addgoal"
      [] h = "cmd_goals" -> m.cmd = "goals"
      [] h = "cmd_done" -> m.cmd = "done"
      [] h = "cmd_del" -> m.cmd = "del"
      [] h = "handle_buttons" -> TRUE
      [] h = "ask_ai" -> m.cmd = "ask"
      [] OTHER -> FALSE

\* The registrations when bot.py is imported and its main() is then run: the
\* module body is executed to its end, the second /ask handler included.
RegisteredAll == Append(Registered, "ask_ai")

\* The last of the registrations regs whose filter matches m
LastMatch(regs, m) ==
    LET hits == {i \in DOMAIN regs : Matches(regs[i], m)}
    IN  regs[CHOOSE i \in hits : \A j \in hits : i >= j]

\* The first of the registrations regs whose filter matches m
FirstMatch(regs, m) ==
    LET hits == {i \in DOMAIN regs : Matches(regs[i], m)}
    IN  regs[CHOOSE i \in hits : \A j \in hits : i <= j]

\* ----------------------------------------------------------------- replies
Reply(kind, id, lines, text, menu) ==
    [kind |-> kind, id |-> id, lines |-> lines, text |-> text, menu |-> menu]

Plain(kind) == Reply(kind, 0, << >>, << >>, FALSE)

\* A line whose icon tells the opposite of is_done
LineIconSwapped(row) ==
    [status |-> IF row.is_done # 0 THEN "pending" ELSE "done",
     id |-> row.id, text |-> row.text]

\* "✅" if is_done else "⏳", then *id*. text
Line(row) ==
    [status |-> IF row.is_done # 0 THEN "done" ELSE "pending",
     id |-> row.id, text |-> row.text]

Render(rows) == [k \in DOMAIN rows |-> Line(rows[k])]

\* ------------------------------------------------------------------- state
VARIABLES
    goals,            \* the rows of table goals, by id
    sqlite_sequence,  \* the AUTOINCREMENT counter of table goals
    tasks,            \* the handler task of each slot
    loop,             \* the task whose blocking call holds the event loop, or 0
    issued,           \* history: the ids add_goal has returned, in order
    removed,          \* history: the ids whose row delete_goal has removed
    told,             \* history: the ids a reply has reported done, deleted
    phase,            \* main: "starting" until init_db is through, then "polling"
    table,            \* whether data.db holds table goals
    handlers,         \* the registrations the dispatcher holds, in order
    rebooted          \* history: init_db has run on a table that held goals

vars ==
    <<goals, sqlite_sequence, tasks, loop, issued, removed, told, phase, table,
      handlers, rebooted>>

store == <<goals, sqlite_sequence, issued, removed>>

process == <<phase, table, handlers, rebooted>>

\* The dispatcher calls the first registered handler whose filter matches.
Route(m) == FirstMatch(handlers, m)

NoMsg == Msg("", None, "")

\* A handler task: where it stands (pc), the message, its locals (text is
\* question or text, goal_id, count is changed or deleted, rows), the replies
\* it has sent (out), and history: the calls it has made, the table as its
\* store call found and left it (before, after), the ids removed before that
\* call (gone), what replies had reported done and deleted before that call
\* (heard), and the response of the completion API (resp).
Idle ==
    [pc |-> "idle", handler |-> "", user |-> 0, msg |-> NoMsg,
     goal_id |-> 0, count |-> 0, text |-> << >>, rows |-> << >>, out |-> << >>,
     calls |-> << >>, before |-> << >>, after |-> << >>, gone |-> {},
     heard |-> [done |-> {}, deleted |-> {}], resp |-> None]

Started(h, u, m) == [Idle EXCEPT !.pc = "start", !.handler = h, !.user = u, !.msg = m]

\* The process is started in a directory without data.db: no table yet, the
\* dispatcher holds one of the registration lists regs, no handler runs.
InitWith(slots, regs) ==
    /\ goals = << >>
    /\ sqlite_sequence = 0
    /\ tasks = [t \in slots |-> Idle]
    /\ loop = 0
    /\ issued = << >>
    /\ removed = {}
    /\ told = [done |-> {}, deleted |-> {}]
    /\ phase = "starting"
    /\ table = FALSE
    /\ handlers \in regs
    /\ rebooted = FALSE

\* `python bot.py`: the decorators above asyncio.run(main()) have registered.
Init == InitWith(Tasks, {Registered})

Set(t, rec) == tasks' = [tasks EXCEPT ![t] = rec]

\* message.answer(...) and the handler returns
Answer(task, reply) == [task EXCEPT !.out = Append(@, reply), !.pc = "done"]

\* The handler goes on to `next` without the message.answer(...)
GoOnUnanswered(task, reply, next) == [task EXCEPT !.pc = next]

\* message.answer(...) and the handler goes on to `next`
AnswerThen(task, reply, next) == [task EXCEPT !.out = Append(@, reply), !.pc = next]

\* The handler awaits the function `f`
Call(task, f) == [task EXCEPT !.calls = Append(@, f), !.pc = f]

\* The store function the task awaits has its statement executed on its own
\* connection: the table as the statement found it, and as it leaves it (g)
Executed(task, g) ==
    [task EXCEPT !.pc = task.pc \o "_exec", !.before = goals, !.after = g,
                 !.gone = removed, !.heard = told]

\* The store function the task awaits is through (commit or fetchall, close
\* of the connection) and returns to the handler
Returned(task) == [task EXCEPT !.pc = task.calls[Len(task.calls)] \o "_ret"]

\* SQLite's locks on data.db.  A connection whose INSERT, UPDATE or DELETE is
\* executed and not committed holds the write lock.  db.execute of a SELECT
\* steps to the first row: a SELECT that found a row holds a read lock until
\* fetchall has read to the end, one that found no row is done and holds none.
Writers == {"add_goal_exec", "mark_done_exec", "delete_goal_exec"}

Fetching == {"list_goals_exec"}

\* The connection of slot o holds a read lock
HoldsReadLock(o) ==
    /\ tasks[o].pc \in Fetching
    /\ SelectGoals(tasks[o].before, tasks[o].user) # << >>

\* No other connection holds the write lock: a statement that writes can run
CanWrite(t) == \A o \in DOMAIN tasks \ {t} : tasks[o].pc \notin Writers

\* No other connection holds a read lock: a commit can go through
CanCommit(t) == \A o \in DOMAIN tasks \ {t} : ~HoldsReadLock(o)

\* A message arrives for a free slot and the dispatcher picks handler h.
Dispatch(t, m, h) ==
    /\ phase = "polling"
    /\ loop = 0
    /\ tasks[t].pc = "idle"
    /\ Route(m) = h

\* ----------------------------------------------------------------- startup
\* A definition of the table that drops what data.db holds
RecreateTable(exists, g, seq) == [goals |-> << >>, seq |-> 0]

\* CREATE TABLE IF NOT EXISTS goals (...): a table that exists is left as it
\* is, rows and AUTOINCREMENT counter; a new one is empty.
CreateTable(exists, g, seq) ==
    IF exists THEN [goals |-> g, seq |-> seq] ELSE [goals |-> << >>, seq |-> 0]

\* main: `await init_db()` is through, then start_polling begins
init_db ==
    /\ phase = "starting"
    /\ LET db == CreateTable(table, goals, sqlite_sequence)
       IN  /\ goals' = db.goals
           /\ sqlite_sequence' = db.seq
    /\ table' = TRUE
    /\ phase' = "polling"
    /\ rebooted' = (rebooted \/ (table /\ goals # << >>))
    /\ UNCHANGED <<tasks, loop, issued, removed, told, handlers>>

\* The process ends at any point of polling and is started again: data.db
\* stays, the handler tasks in flight are gone, main runs from its top.
restart ==
    /\ phase = "polling"
    /\ tasks' = [t \in DOMAIN tasks |-> Idle]
    /\ loop' = 0
    /\ phase' = "starting"
    /\ UNCHANGED <<store, told, table, handlers, rebooted>>

\* ---------------------------------------------------------------- handlers
\* @dp.message(Command("start"))
start_handler(t, u, m) ==
    /\ Dispatch(t, m, "start_handler")
    /\ Set(t, Answer(Started("start_handler", u, m), Reply("help", 0, << >>, << >>, TRUE)))
    /\ UNCHANGED <<store, told, process, loop>>

\* @dp.message(Command("ask")), up to the await of the first message.answer
cmd_ask(t, u, m) ==
    /\ Dispatch(t, m, "cmd_ask")
    /\ LET question == strip(OrEmpty(m.args))
           task == [Started("cmd_ask", u, m) EXCEPT !.text = question]
       IN  IF question = << >>
           THEN Set(t, Answer(task, Plain("ask_usage")))
           ELSE Set(t, AnswerThen(task, Plain("thinking"), "thinking_sent"))
    /\ UNCHANGED <<store, told, process, loop>>

\* cmd_ask resumes and enters ask_openai: the SDK call is synchronous, so the
\* event loop is held until it returns.
cmd_ask_call(t) ==
    /\ loop = 0
    /\ tasks[t].pc = "thinking_sent"
    /\ Set(t, Call(tasks[t], "ask_openai"))
    /\ loop' = t
    /\ UNCHANGED <<store, told, process>>

\* The SDK call ends with resp; ask_openai returns and cmd_ask sends the answer.
cmd_ask_answer(t, resp) ==
    /\ loop = t
    /\ tasks[t].pc = "ask_openai"
    /\ Set(t, Answer([tasks[t] EXCEPT !.resp = Some(resp)],
                     Reply("answer", 0, << >>, ask_openai(resp), FALSE)))
    /\ loop' = 0
    /\ UNCHANGED <<store, told, process>>

\* The second @dp.message(Command("ask")), at the end of the file, up to the
\* await of its first message.answer; message.text without "/ask" is the
\* argument text.
ask_ai(t, u, m) ==
    /\ Dispatch(t, m, "ask_ai")
    /\ LET query == strip(OrEmpty(m.args))
           task == [Started("ask_ai", u, m) EXCEPT !.text = query]
       IN  IF query = << >>
           THEN Set(t, Answer(task, Plain("ai_usage")))
           ELSE Set(t, AnswerThen(task, Plain("ai_thinking"), "ai_thinking_sent"))
    /\ UNCHANGED <<store, told, process, loop>>

\* f"{answer}" for an optional string: None is written as the text None
format(a) == IF a = None THEN <<"N", "o", "n", "e">> ELSE a[1]

\* ask_ai resumes and makes its own synchronous SDK call
ask_ai_call(t) ==
    /\ loop = 0
    /\ tasks[t].pc = "ai_thinking_sent"
    /\ Set(t, Call(tasks[t], "create"))
    /\ loop' = t
    /\ UNCHANGED <<store, told, process>>

\* The SDK call of ask_ai ends with resp: the content is sent as it is
\* behind a heading, or the error notice when the call raised.
ask_ai_answer(t, resp) ==
    /\ loop = t
    /\ tasks[t].pc = "create"
    /\ Set(t, Answer([tasks[t] EXCEPT !.resp = Some(resp)],
                     IF resp.raises
                     THEN Plain("ai_error")
                     ELSE Reply("ai_answer", 0, << >>, format(resp.content), FALSE)))
    /\ loop' = 0
    /\ UNCHANGED <<store, told, process>>

\* A message arrives that the dispatcher hands to one of the two /ask
\* handlers, the one Route picks.
on_ask(t, u, m) ==
    /\ tasks[t].pc = "idle"
    /\ IF Route(m) = "ask_ai" THEN ask_ai(t, u, m) ELSE cmd_ask(t, u, m)

\* The /ask handler of slot t resumes after its notice and makes its call
on_ask_call(t) ==
    IF tasks[t].handler = "ask_ai" THEN ask_ai_call(t) ELSE cmd_ask_call(t)

\* The completion call of the /ask handler of slot t ends with resp
on_ask_answer(t, resp) ==
    IF tasks[t].handler = "ask_ai" THEN ask_ai_answer(t, resp) ELSE cmd_ask_answer(t, resp)

\* @dp.message(Command("addgoal")), up to the await of add_goal.  The model
\* takes no further goal once MaxGoals ids are used.
cmd_addgoal(t, u, m) ==
    /\ Dispatch(t, m, "cmd_addgoal")
    /\ LET text == strip(OrEmpty(m.args))
           task == [Started("cmd_addgoal", u, m) EXCEPT !.text = text]
       IN  IF text = << >>
           THEN Set(t, Answer(task, Plain("addgoal_usage")))
           ELSE /\ sqlite_sequence < MaxGoals
                /\ Set(t, Call(task, "add_goal"))
    /\ UNCHANGED <<store, told, process, loop>>

\* add_goal, from the await of aiosqlite.connect to the await of db.execute:
\* the INSERT with created_at = utcnow() = ts is executed in a transaction of
\* this connection, which takes the write lock; the cursor has its lastrowid.
add_goal_execute(t, ts) ==
    /\ loop = 0
    /\ tasks[t].pc = "add_goal"
    /\ CanWrite(t)
    /\ LET id == NextRowId(goals, sqlite_sequence)
           g == InsertGoal(goals, id, tasks[t].user, tasks[t].text, ts)
       IN  Set(t, [Executed(tasks[t], g) EXCEPT !.goal_id = id])
    /\ UNCHANGED <<store, told, process, loop>>

\* add_goal, from the await of db.execute to its return: db.commit() makes
\* the row and the counter visible to the other connections, the connection
\* is closed and cur.lastrowid returned.
add_goal_commit(t) ==
    /\ loop = 0
    /\ tasks[t].pc = "add_goal_exec"
    /\ CanCommit(t)
    /\ goals' = tasks[t].after
    /\ sqlite_sequence' = tasks[t].goal_id
    /\ issued' = Append(issued, tasks[t].goal_id)
    /\ Set(t, Returned(tasks[t]))
    /\ UNCHANGED <<loop, removed, told, process>>

\* cmd_addgoal answering with the largest id the table holds at that moment
\* in place of the lastrowid of its own cursor
cmd_addgoal_reply_max_id(t) ==
    /\ loop = 0
    /\ tasks[t].pc = "add_goal_ret"
    /\ Set(t, Answer(tasks[t], Reply("added", Max(DOMAIN goals), << >>, << >>, FALSE)))
    /\ UNCHANGED <<store, told, process, loop>>

\* cmd_addgoal resumes with goal_id
cmd_addgoal_reply(t) ==
    /\ loop = 0
    /\ tasks[t].pc = "add_goal_ret"
    /\ Set(t, Answer(tasks[t], Reply("added", tasks[t].goal_id, << >>, << >>, FALSE)))
    /\ UNCHANGED <<store, told, process, loop>>

\* @dp.message(Command("goals")), up to the await of list_goals
cmd_goals(t, u, m) ==
    /\ Dispatch(t, m, "cmd_goals")
    /\ Set(t, Call(Started("cmd_goals", u, m), "list_goals"))
    /\ UNCHANGED <<store, told, process, loop>>

\* list_goals, from the await of aiosqlite.connect to the await of
\* db.execute: the SELECT is executed and reads what is committed; if it
\* found a row the connection holds a read lock until the rows are fetched.
list_goals_execute(t) ==
    /\ loop = 0
    /\ tasks[t].pc = "list_goals"
    /\ Set(t, Executed(tasks[t], goals))
    /\ UNCHANGED <<store, told, process, loop>>

\* list_goals, from the await of db.execute to its return: cur.fetchall()
\* gives the rows of the SELECT (none if it found none, whatever has been
\* committed since), the connection is closed.
list_goals_fetchall(t) ==
    /\ loop = 0
    /\ tasks[t].pc = "list_goals_exec"
    /\ Set(t, [Returned(tasks[t]) EXCEPT
                  !.rows = SelectGoals(tasks[t].before, tasks[t].user)])
    /\ UNCHANGED <<store, told, process, loop>>

\* cmd_goals resumes with rows
cmd_goals_reply(t) ==
    /\ loop = 0
    /\ tasks[t].pc = "list_goals_ret"
    /\ IF tasks[t].rows = << >>
       THEN Set(t, Answer(tasks[t], Plain("no_goals")))
       ELSE Set(t, Answer(tasks[t],
                          Reply("goal_list", 0, Render(tasks[t].rows), << >>, FALSE)))
    /\ UNCHANGED <<store, told, process, loop>>

\* `not command.args or not command.args.isdigit()`
BadIdArgs(args) == OrEmpty(args) = << >> \/ ~isdigit(args[1])

\* @dp.message(Command("done")), up to the await of mark_done; int() may
\* raise ValueError, which nothing catches.
cmd_done(t, u, m) ==
    /\ Dispatch(t, m, "cmd_done")
    /\ LET task == Started("cmd_done", u, m)
       IN  IF BadIdArgs(m.args)
           THEN Set(t, Answer(task, Plain("done_usage")))
           ELSE IF IntRaises(m.args[1])
           THEN Set(t, [task EXCEPT !.pc = "raised"])
           ELSE Set(t, Call([task EXCEPT !.goal_id = int(m.args[1])], "mark_done"))
    /\ UNCHANGED <<store, told, process, loop>>

\* mark_done, from the await of aiosqlite.connect to the await of
\* db.execute: the UPDATE is executed in a transaction of this connection,
\* which takes the write lock; the cursor has its rowcount.
mark_done_execute(t) ==
    /\ loop = 0
    /\ tasks[t].pc = "mark_done"
    /\ CanWrite(t)
    /\ LET g == UpdateDone(goals, tasks[t].goal_id, tasks[t].user)
       IN  Set(t, [Executed(tasks[t], g) EXCEPT
                      !.count = RowCount(goals, tasks[t].goal_id, tasks[t].user)])
    /\ UNCHANGED <<store, told, process, loop>>

\* mark_done, from the await of db.execute to its return: db.commit(), the
\* connection is closed and cur.rowcount returned.
mark_done_commit(t) ==
    /\ loop = 0
    /\ tasks[t].pc = "mark_done_exec"
    /\ CanCommit(t)
    /\ goals' = tasks[t].after
    /\ Set(t, Returned(tasks[t]))
    /\ UNCHANGED <<sqlite_sequence, loop, issued, removed, told, process>>

\* cmd_done resumes with changed
cmd_done_reply(t) ==
    /\ loop = 0
    /\ tasks[t].pc = "mark_done_ret"
    /\ Set(t, Answer(tasks[t],
                     Plain(IF tasks[t].count # 0 THEN "done_ok" ELSE "not_found")))
    /\ told' = IF tasks[t].count # 0
               THEN [told EXCEPT !.done = @ \cup {tasks[t].goal_id}]
               ELSE told
    /\ UNCHANGED <<store, process, loop>>

\* @dp.message(Command("del")), up to the await of delete_goal
cmd_del(t, u, m) ==
    /\ Dispatch(t, m, "cmd_del")
    /\ LET task == Started("cmd_del", u, m)
       IN  IF BadIdArgs(m.args)
           THEN Set(t, Answer(task, Plain("del_usage")))
           ELSE IF IntRaises(m.args[1])
           THEN Set(t, [task EXCEPT !.pc = "raised"])
           ELSE Set(t, Call([task EXCEPT !.goal_id = int(m.args[1])], "delete_goal"))
    /\ UNCHANGED <<store, told, process, loop>>

\* delete_goal, from the await of aiosqlite.connect to the await of
\* db.execute: the DELETE is executed in a transaction of this connection,
\* which takes the write lock; the cursor has its rowcount.
delete_goal_execute(t) ==
    /\ loop = 0
    /\ tasks[t].pc = "delete_goal"
    /\ CanWrite(t)
    /\ LET g == DeleteRows(goals, tasks[t].goal_id, tasks[t].user)
       IN  Set(t, [Executed(tasks[t], g) EXCEPT
                      !.count = RowCount(goals, tasks[t].goal_id, tasks[t].user)])
    /\ UNCHANGED <<store, told, process, loop>>

\* delete_goal, from the await of db.execute to its return: db.commit(), the
\* connection is closed and cur.rowcount returned.
delete_goal_commit(t) ==
    /\ loop = 0
    /\ tasks[t].pc = "delete_goal_exec"
    /\ CanCommit(t)
    /\ goals' = tasks[t].after
    /\ removed' = removed \cup (DOMAIN goals \ DOMAIN tasks[t].after)
    /\ Set(t, Returned(tasks[t]))
    /\ UNCHANGED <<sqlite_sequence, loop, issued, told, process>>

\* cmd_del resumes with deleted
cmd_del_reply(t) ==
    /\ loop = 0
    /\ tasks[t].pc = "delete_goal_ret"
    /\ Set(t, Answer(tasks[t],
                     Plain(IF tasks[t].count # 0 THEN "deleted" ELSE "not_found")))
    /\ told' = IF tasks[t].count # 0
               THEN [told EXCEPT !.deleted = @ \cup {tasks[t].goal_id}]
               ELSE told
    /\ UNCHANGED <<store, process, loop>>

\* A catch-all whose last branch answers without the keyboard
handle_buttons_bare_default(t, u, m) ==
    /\ Dispatch(t, m, "handle_buttons")
    /\ LET task == Started("handle_buttons", u, m)
       IN  CASE m.text = "ask_ai" -> Set(t, Answer(task, Plain("button_ask")))
             [] m.text = "my_goals" -> Set(t, Call(task, "list_goals"))
             [] m.text = "new_challenge" -> Set(t, Answer(task, Plain("challenge_stub")))
             [] m.text = "plan_today" -> Set(t, Answer(task, Plain("plan_stub")))
             [] OTHER -> Set(t, Answer(task, Plain("choose_menu")))
    /\ UNCHANGED <<store, told, process, loop>>

\* @dp.message(): the catch-all registered after the commands
handle_buttons(t, u, m) ==
    /\ Dispatch(t, m, "handle_buttons")
    /\ LET task == Started("handle_buttons", u, m)
       IN  CASE m.text = "ask_ai" -> Set(t, Answer(task, Plain("button_ask")))
             [] m.text = "my_goals" -> Set(t, Call(task, "list_goals"))
             [] m.text = "new_challenge" -> Set(t, Answer(task, Plain("challenge_stub")))
             [] m.text = "plan_today" -> Set(t, Answer(task, Plain("plan_stub")))
             [] OTHER -> Set(t, Answer(task, Reply("choose_menu", 0, << >>, << >>, TRUE)))
    /\ UNCHANGED <<store, told, process, loop>>

StoreCalls == {"add_goal", "list_goals", "mark_done", "delete_goal"}

\* aiosqlite raises inside a store function, at the connect, the statement,
\* the commit or the fetch (the file cannot be opened, the database is locked
\* by another connection for longer than the timeout, the disk fails): what
\* the connection has not committed is rolled back as it closes, no handler
\* catches it, and the handler ends with the exception.
storage_error(t) ==
    /\ loop = 0
    /\ tasks[t].pc \in StoreCalls \cup Writers \cup Fetching
    /\ Set(t, [tasks[t] EXCEPT !.pc = "raised"])
    /\ UNCHANGED <<store, told, process, loop>>

\* The handler has returned or raised; the dispatcher drops its task.
task_ends(t) ==
    /\ loop = 0
    /\ tasks[t].pc \in {"done", "raised"}
    /\ Set(t, Idle)
    /\ UNCHANGED <<store, told, process, loop>>

Next ==
    \/ init_db
    \/ \E t \in Tasks, u \in Users, m \in Messages : start_handler(t, u, m)
    \/ \E t \in Tasks, u \in Users, m \in Messages : on_ask(t, u, m)
    \/ \E t \in Tasks : on_ask_call(t)
    \/ \E t \in Tasks, resp \in Responses : on_ask_answer(t, resp)
    \/ \E t \in Tasks, u \in Users, m \in Messages : cmd_addgoal(t, u, m)
    \/ \E t \in Tasks, ts \in Times : add_goal_execute(t, ts)
    \/ \E t \in Tasks : add_goal_commit(t)
    \/ \E t \in Tasks : cmd_addgoal_reply(t)
    \/ \E t \in Tasks, u \in Users, m \in Messages : cmd_goals(t, u, m)
    \/ \E t \in Tasks : list_goals_execute(t)
    \/ \E t \in Tasks : list_goals_fetchall(t)
    \/ \E t \in Tasks : cmd_goals_reply(t)
    \/ \E t \in Tasks, u \in Users, m \in Messages : cmd_done(t, u, m)
    \/ \E t \in Tasks : mark_done_execute(t)
    \/ \E t \in Tasks : mark_done_commit(t)
    \/ \E t \in Tasks : cmd_done_reply(t)
    \/ \E t \in Tasks, u \in Users, m \in Messages : cmd_del(t, u, m)
    \/ \E t \in Tasks : delete_goal_execute(t)
    \/ \E t \in Tasks : delete_goal_commit(t)
    \/ \E t \in Tasks : cmd_del_reply(t)
    \/ \E t \in Tasks, u \in Users, m \in Messages : handle_buttons(t, u, m)
    \/ \E t \in Tasks : storage_error(t)
    \/ \E t \in Tasks : task_ends(t)

Spec == Init /\ [][Next]_vars

\* ------------------------------------------------- handlers that overlap
\* start_polling handles every update in a task of its own, so the handlers
\* of several messages are in flight together.  Two slots, and the messages
\* /ask a, /addgoal a and /goals from either user.
ConcTasks == 1..MaxConcTasks

ConcMessages ==
    {Msg("ask", Some(<<"a">>), "other"), Msg("addgoal", Some(<<"a">>), "other"),
     Msg("goals", None, "other")}

InitConc == InitWith(ConcTasks, {Registered})

NextConc ==
    \/ init_db
    \/ \E t \in ConcTasks, u \in Users, m \in ConcMessages : on_ask(t, u, m)
    \/ \E t \in ConcTasks : on_ask_call(t)
    \/ \E t \in ConcTasks, resp \in Responses : on_ask_answer(t, resp)
    \/ \E t \in ConcTasks, u \in Users, m \in ConcMessages : cmd_addgoal(t, u, m)
    \/ \E t \in ConcTasks, ts \in Times : add_goal_execute(t, ts)
    \/ \E t \in ConcTasks : add_goal_commit(t)
    \/ \E t \in ConcTasks : cmd_addgoal_reply(t)
    \/ \E t \in ConcTasks, u \in Users, m \in ConcMessages : cmd_goals(t, u, m)
    \/ \E t \in ConcTasks : list_goals_execute(t)
    \/ \E t \in ConcTasks : list_goals_fetchall(t)
    \/ \E t \in ConcTasks : cmd_goals_reply(t)
    \/ \E t \in ConcTasks : storage_error(t)
    \/ \E t \in ConcTasks : task_ends(t)

SpecConc == InitConc /\ [][NextConc]_vars

\* ------------------------------------- goal commands whose handlers overlap
\* The two slots with the messages /addgoal a, /goals, /done 1 and /del 2
\* from either user.
LifeMessages ==
    {Msg("addgoal", Some(<<"a">>), "other"), Msg("goals", None, "other"),
     Msg("done", Some(<<"1">>), "other"), Msg("del", Some(<<"2">>), "other")}

NextLife ==
    \/ init_db
    \/ \E t \in ConcTasks, u \in Users, m \in LifeMessages : cmd_addgoal(t, u, m)
    \/ \E t \in ConcTasks, ts \in Times : add_goal_execute(t, ts)
    \/ \E t \in ConcTasks : add_goal_commit(t)
    \/ \E t \in ConcTasks : cmd_addgoal_reply(t)
    \/ \E t \in ConcTasks, u \in Users, m \in LifeMessages : cmd_goals(t, u, m)
    \/ \E t \in ConcTasks : list_goals_execute(t)
    \/ \E t \in ConcTasks : list_goals_fetchall(t)
    \/ \E t \in ConcTasks : cmd_goals_reply(t)
    \/ \E t \in ConcTasks, u \in Users, m \in LifeMessages : cmd_done(t, u, m)
    \/ \E t \in ConcTasks : mark_done_execute(t)
    \/ \E t \in ConcTasks : mark_done_commit(t)
    \/ \E t \in ConcTasks : cmd_done_reply(t)
    \/ \E t \in ConcTasks, u \in Users, m \in LifeMessages : cmd_del(t, u, m)
    \/ \E t \in ConcTasks : delete_goal_execute(t)
    \/ \E t \in ConcTasks : delete_goal_commit(t)
    \/ \E t \in ConcTasks : cmd_del_reply(t)
    \/ \E t \in ConcTasks : storage_error(t)
    \/ \E t \in ConcTasks : task_ends(t)

SpecLife == InitConc /\ [][NextLife]_vars

\* ------------------------------------------------------ process restarts
\* The process is ended and started again between and during the handlers
\* of /addgoal a, /goals, /done 1, /del 1 and /del 2 from either user.
RestartMessages ==
    {Msg("addgoal", Some(<<"a">>), "other"), Msg("goals", None, "other"),
     Msg("done", Some(<<"1">>), "other"), Msg("del", Some(<<"1">>), "other"),
     Msg("del", Some(<<"2">>), "other")}

NextRestart ==
    \/ init_db
    \/ restart
    \/ \E t \in Tasks, u \in Users, m \in RestartMessages : cmd_addgoal(t, u, m)
    \/ \E t \in Tasks, ts \in Times : add_goal_execute(t, ts)
    \/ \E t \in Tasks : add_goal_commit(t)
    \/ \E t \in Tasks : cmd_addgoal_reply(t)
    \/ \E t \in Tasks, u \in Users, m \in RestartMessages : cmd_goals(t, u, m)
    \/ \E t \in Tasks : list_goals_execute(t)
    \/ \E t \in Tasks : list_goals_fetchall(t)
    \/ \E t \in Tasks : cmd_goals_reply(t)
    \/ \E t \in Tasks, u \in Users, m \in RestartMessages : cmd_done(t, u, m)
    \/ \E t \in Tasks : mark_done_execute(t)
    \/ \E t \in Tasks : mark_done_commit(t)
    \/ \E t \in Tasks : cmd_done_reply(t)
    \/ \E t \in Tasks, u \in Users, m \in RestartMessages : cmd_del(t, u, m)
    \/ \E t \in Tasks : delete_goal_execute(t)
    \/ \E t \in Tasks : delete_goal_commit(t)
    \/ \E t \in Tasks : cmd_del_reply(t)
    \/ \E t \in Tasks : storage_error(t)
    \/ \E t \in Tasks : task_ends(t)

SpecRestart == Init /\ [][NextRestart]_vars

\* ------------------------------------------------------- both ways to run
\* bot.py run as a script, or imported and main() run by the importer
InitAny == InitWith(Tasks, {Registered, RegisteredAll})

SpecAny == InitAny /\ [][Next]_vars


\* ------------------------------------------------------------- properties
Range(f) == {f[i] : i \in DOMAIN f}

\* The goals of `user` in table g
OwnedBy(g, user) == {i \in DOMAIN g : g[i].user_id = user}

\* An optional argument that is missing, empty or all whitespace
Blank(a) == a = None \/ \A i \in DOMAIN a[1] : a[1][i] = " "

\* An optional argument that is a positive integer written with digits only
PositiveDecimal(a) ==
    /\ a # None
    /\ a[1] # << >>
    /\ \A i \in DOMAIN a[1] : a[1][i] \in Range(AsciiDigits)
    /\ \E i \in DOMAIN a[1] : a[1][i] # "0"

\* The completion-API call of the task raised (an API error, a timeout)
ApiRaised(k) == k.resp # None /\ k.resp[1].raises

\* The completion-API call of the task failed: it raised or gave no content
ApiFailed(k) == k.resp # None /\ (k.resp[1].raises \/ k.resp[1].content = None)

\* C1: a store call by one owner never shows, marks or deletes the goal of
\* another: list_goals returns only rows of the caller, and mark_done and
\* delete_goal on the id of another owner's goal return 0 and leave the
\* table as it was.
OwnershipIsolation ==
    \A t \in Tasks :
        LET k == tasks[t]
        IN  /\ k.pc = "list_goals_ret" =>
                   \A n \in DOMAIN k.rows :
                       /\ k.rows[n].id \in DOMAIN k.before
                       /\ k.before[k.rows[n].id].user_id = k.user
            /\ ( /\ k.pc \in {"mark_done_ret", "delete_goal_ret"}
                 /\ k.goal_id \in DOMAIN k.before
                 /\ k.before[k.goal_id].user_id # k.user )
                   => k.count = 0 /\ k.after = k.before

OwnershipIsolationWitness ==
    \E t \in Tasks :
        /\ tasks[t].pc = "delete_goal_ret"
        /\ tasks[t].goal_id \in DOMAIN tasks[t].before
        /\ tasks[t].before[tasks[t].goal_id].user_id # tasks[t].user
        /\ tasks[t].before[tasks[t].goal_id].is_done = 1
        /\ tasks[t].count = 0
        /\ tasks[t].goal_id \in DOMAIN goals

\* C2: in every step, a goal that stays in the table keeps its text, user_id
\* and created_at, and an is_done of 1 stays 1.
GoalFieldsImmutable ==
    [][\A i \in DOMAIN goals \cap DOMAIN goals' :
           /\ goals'[i].text = goals[i].text
           /\ goals'[i].user_id = goals[i].user_id
           /\ goals'[i].created_at = goals[i].created_at
           /\ goals'[i].is_done \in {0, 1}
           /\ goals[i].is_done = 1 => goals'[i].is_done = 1]_vars

GoalFieldsImmutableWitness ==
    \E t \in Tasks :
        /\ tasks[t].pc = "mark_done_ret"
        /\ tasks[t].count = 1
        /\ tasks[t].before[tasks[t].goal_id].is_done = 0
        /\ goals[tasks[t].goal_id].is_done = 1
        /\ Cardinality(DOMAIN goals) > 1

\* C3: mark_done on an existing goal of the caller returns 1 and leaves
\* is_done = 1, whether or not the goal was already done.
MarkDoneIdempotent ==
    \A t \in Tasks :
        LET k == tasks[t]
        IN  ( /\ k.pc = "mark_done_ret"
              /\ k.goal_id \in DOMAIN k.before
              /\ k.before[k.goal_id].user_id = k.user )
                => /\ k.count = 1
                   /\ k.goal_id \in DOMAIN k.after
                   /\ k.after[k.goal_id].is_done = 1

MarkDoneIdempotentWitness ==
    \E t \in Tasks :
        /\ tasks[t].pc = "mark_done_ret"
        /\ tasks[t].goal_id \in DOMAIN tasks[t].before
        /\ tasks[t].before[tasks[t].goal_id].user_id = tasks[t].user
        /\ tasks[t].before[tasks[t].goal_id].is_done = 1
        /\ tasks[t].count = 1

\* C4: an id whose row delete_goal has removed is never in the table again,
\* and mark_done and delete_goal on it return 0 for every owner.
DeletedIdStaysGone ==
    /\ removed \cap DOMAIN goals = {}
    /\ \A t \in Tasks :
           ( /\ tasks[t].pc \in {"mark_done_ret", "delete_goal_ret"}
             /\ tasks[t].goal_id \in tasks[t].gone )
               => tasks[t].count = 0 /\ tasks[t].after = tasks[t].before

DeletedIdStaysGoneWitness ==
    \E t \in Tasks :
        /\ tasks[t].pc = "mark_done_ret"
        /\ tasks[t].goal_id \in tasks[t].gone
        /\ tasks[t].count = 0
        /\ \E i \in DOMAIN tasks[t].before : i > tasks[t].goal_id

\* C5: the ids add_goal returns are strictly increasing in the order of the
\* calls, each is new to the table and greater than every id in it or
\* removed from it, and every row's id is one add_goal returned.
IdsStrictlyIncreasing ==
    /\ \A i, j \in DOMAIN issued : i < j => issued[i] < issued[j]
    /\ DOMAIN goals \subseteq Range(issued)
    /\ \A t \in Tasks :
           tasks[t].pc = "add_goal_ret" =>
               /\ tasks[t].goal_id \notin DOMAIN tasks[t].before
               /\ tasks[t].goal_id \in DOMAIN tasks[t].after
               /\ \A j \in DOMAIN tasks[t].before \cup tasks[t].gone : j < tasks[t].goal_id

IdsStrictlyIncreasingWitness ==
    \E t \in Tasks :
        /\ tasks[t].pc = "add_goal_ret"
        /\ tasks[t].goal_id - 1 \in tasks[t].gone
        /\ Len(issued) > 1

\* C6: list_goals returns one row for each goal of the caller in the table,
\* with that goal's text and is_done, and no other row, in strictly
\* descending order of id.
ListGoalsExact ==
    \A t \in Tasks :
        LET k == tasks[t]
        IN  k.pc = "list_goals_ret" =>
                /\ Len(k.rows) = Cardinality(OwnedBy(k.before, k.user))
                /\ {k.rows[n].id : n \in DOMAIN k.rows} = OwnedBy(k.before, k.user)
                /\ \A n \in DOMAIN k.rows :
                       /\ k.rows[n].text = k.before[k.rows[n].id].text
                       /\ k.rows[n].is_done = k.before[k.rows[n].id].is_done
                /\ \A n \in 1..(Len(k.rows) - 1) : k.rows[n].id > k.rows[n + 1].id

ListGoalsExactWitness ==
    \E t \in Tasks :
        /\ tasks[t].pc = "list_goals_ret"
        /\ Len(tasks[t].rows) = MaxGoals
        /\ tasks[t].rows[1].id = MaxGoals
        /\ tasks[t].rows[MaxGoals].id = 1

\* C7: /ask and /addgoal with a missing, empty or all-whitespace argument
\* send the usage hint and nothing else, and call neither the completion API
\* nor the store.
BlankArgsGetUsageOnly ==
    \A t \in Tasks :
        LET k == tasks[t]
        IN  /\ (k.handler = "cmd_ask" /\ Blank(k.msg.args)) =>
                   k.pc = "done" /\ k.out = <<Plain("ask_usage")>> /\ k.calls = << >>
            /\ (k.handler = "cmd_addgoal" /\ Blank(k.msg.args)) =>
                   k.pc = "done" /\ k.out = <<Plain("addgoal_usage")>> /\ k.calls = << >>

BlankArgsGetUsageOnlyWitness ==
    \E t \in Tasks :
        /\ tasks[t].handler = "cmd_addgoal"
        /\ tasks[t].msg.args = Some(<<" ">>)
        /\ tasks[t].pc = "done"
        /\ goals # << >>

\* C8: /done and /del whose argument is not a positive integer written with
\* digits only send the usage hint and nothing else, and do not call
\* mark_done or delete_goal.
BadIdGetsUsageOnly ==
    \A t \in Tasks :
        LET k == tasks[t]
        IN  /\ (k.handler = "cmd_done" /\ ~PositiveDecimal(k.msg.args)) =>
                   k.pc = "done" /\ k.out = <<Plain("done_usage")>> /\ k.calls = << >>
            /\ (k.handler = "cmd_del" /\ ~PositiveDecimal(k.msg.args)) =>
                   k.pc = "done" /\ k.out = <<Plain("del_usage")>> /\ k.calls = << >>

\* C9 as claimed: when the completion-API call fails, /ask sends exactly one
\* reply, the apology.
AskFailureOneReply ==
    \A t \in Tasks :
        (tasks[t].handler = "cmd_ask" /\ tasks[t].pc = "done" /\ ApiRaised(tasks[t]))
            => Len(tasks[t].out) = 1 /\ tasks[t].out[1].text = Apology

\* C9 as amended: when the completion-API call fails, /ask has sent the
\* thinking notice and then exactly one more reply, the apology, and cmd_ask
\* never ends with an exception.
AskFailureApologyAfterNotice ==
    \A t \in Tasks :
        LET k == tasks[t]
        IN  k.handler = "cmd_ask" =>
                /\ k.pc # "raised"
                /\ (k.pc = "done" /\ ApiFailed(k)) =>
                       k.out = <<Plain("thinking"), Reply("answer", 0, << >>, Apology, FALSE)>>

AskFailureApologyAfterNoticeWitness ==
    \E t \in Tasks :
        /\ tasks[t].handler = "cmd_ask"
        /\ tasks[t].pc = "done"
        /\ tasks[t].resp # None
        /\ tasks[t].resp[1].raises
        /\ Len(tasks[t].out) = 2

\* C10: a handler that has ended has sent one or two replies.
EveryMessageAnswered ==
    \A t \in Tasks :
        tasks[t].pc \in {"done", "raised"} => Len(tasks[t].out) \in {1, 2}

\* A message for the free slot o can be taken up by its handler
CanStart(o) ==
    ENABLED (\E u \in Users, m \in ConcMessages :
                cmd_ask(o, u, m) \/ cmd_addgoal(o, u, m) \/ cmd_goals(o, u, m))

\* The handler in slot o can take its next step: its store call can return,
\* or it can resume and send its reply
CanGoOn(o) ==
    ENABLED (\/ cmd_ask_call(o)
             \/ \E ts \in Times : add_goal_execute(o, ts)
             \/ add_goal_commit(o)
             \/ cmd_addgoal_reply(o)
             \/ list_goals_execute(o)
             \/ list_goals_fetchall(o)
             \/ cmd_goals_reply(o)
             \/ task_ends(o))

\* C11: while the handler of one /ask waits for the answer of the completion
\* API, the handlers of other messages go on: a message for a free slot is
\* taken up, and a handler that is under way takes its next step and sends
\* its reply, before the answer is there.
AskDoesNotBlockOthers ==
    \A t \in DOMAIN tasks :
        tasks[t].pc = "ask_openai" =>
            \A o \in DOMAIN tasks \ {t} :
                CASE tasks[o].pc = "idle" -> CanStart(o)
                  [] tasks[o].pc = "ask_openai" -> TRUE
                  [] OTHER -> CanGoOn(o)

\* /done N and /del N are answered with success exactly when N is the id of
\* a goal of the sender that is in the table when the statement runs.
SuccessIffOwned(k) ==
    (k.msg.cmd \in {"done", "del"} /\ k.pc = "done") =>
        /\ Len(k.out) = 1
        /\ k.out[1].kind = (IF k.msg.cmd = "done" THEN "done_ok" ELSE "deleted")
               <=> /\ PositiveDecimal(k.msg.args)
                   /\ DecimalValue(k.msg.args[1]) \in OwnedBy(k.before, k.user)

\* A /done for goal id has succeeded: its success is reported, or its UPDATE
\* is committed and its handler is about to report it
DoneSucceeded(id) ==
    \/ id \in told.done
    \/ \E o \in DOMAIN tasks :
            /\ tasks[o].pc = "mark_done_ret"
            /\ tasks[o].goal_id = id
            /\ tasks[o].count # 0

\* C12 as claimed: the reply to /goals has one line for each goal the sender
\* holds at that moment and no other line; a line shows the done icon exactly
\* when a /done for its id has been answered with success, the pending icon
\* until then, and no line has an id that /del has reported deleted.  /done N
\* and /del N are answered with success exactly when the sender owns goal N.
GoalLifecycleAtReply ==
    \A t \in DOMAIN tasks :
        LET k == tasks[t]
        IN  /\ (k.msg.cmd = "goals" /\ k.pc = "done") =>
                /\ Len(k.out) = 1
                /\ LET lines == k.out[1].lines
                       mine == OwnedBy(goals, k.user)
                   IN  /\ Len(lines) = Cardinality(mine)
                       /\ {lines[i].id : i \in DOMAIN lines} = mine
                       /\ \A i \in DOMAIN lines :
                            /\ lines[i].text = goals[lines[i].id].text
                            /\ lines[i].status =
                                   IF lines[i].id \in told.done THEN "done" ELSE "pending"
                            /\ lines[i].id \notin told.deleted
            /\ SuccessIffOwned(k)

\* C12 as amended: the reply to /goals has one line for each goal the sender
\* held when its SELECT ran and no other line; a line shows the done icon if
\* a /done for its id had been answered with success before the SELECT, and
\* only if a /done for its id has succeeded; no line has an id that /del had
\* reported deleted before the SELECT.  /done N and /del N are answered with
\* success exactly when the sender owns goal N when their statement runs.
GoalLifecycle ==
    \A t \in DOMAIN tasks :
        LET k == tasks[t]
        IN  /\ (k.msg.cmd = "goals" /\ k.pc = "done") =>
                /\ Len(k.out) = 1
                /\ LET lines == k.out[1].lines
                       mine == OwnedBy(k.before, k.user)
                   IN  /\ Len(lines) = Cardinality(mine)
                       /\ {lines[i].id : i \in DOMAIN lines} = mine
                       /\ \A i \in DOMAIN lines :
                            /\ lines[i].text = k.before[lines[i].id].text
                            /\ lines[i].id \in k.heard.done => lines[i].status = "done"
                            /\ lines[i].status = "done" => DoneSucceeded(lines[i].id)
                            /\ lines[i].status \in {"done", "pending"}
                            /\ lines[i].id \notin k.heard.deleted
            /\ SuccessIffOwned(k)

\* /goals is answered with a done line, whose /done had reported success
\* before the SELECT, and a pending line, after a /del has reported a
\* deletion, while the handler of another message is under way
GoalLifecycleWitness ==
    \E t \in DOMAIN tasks :
        LET k == tasks[t]
        IN  /\ k.msg.cmd = "goals"
            /\ k.pc = "done"
            /\ k.heard.deleted # {}
            /\ \E o \in DOMAIN tasks : tasks[o].pc \notin {"idle", "done", "raised"}
            /\ \E i, j \in DOMAIN k.out[1].lines :
                    /\ k.out[1].lines[i].status = "done"
                    /\ k.out[1].lines[i].id \in k.heard.done
                    /\ k.out[1].lines[j].status = "pending"

\* The answer a returned completion carries: its content without the
\* whitespace at both ends
Trimmed(content, text) ==
    /\ \E i, j \in 0..Len(content) :
            /\ i + Len(text) + j = Len(content)
            /\ \A n \in 1..i : content[n] = " "
            /\ \A n \in 1..j : content[Len(content) + 1 - n] = " "
            /\ \A n \in DOMAIN text : text[n] = content[i + n]
    /\ text # << >> => text[1] # " " /\ text[Len(text)] # " "

\* C13: the handler of /ask with a non-empty text first sends the thinking
\* notice and nothing else, makes its one completion call only after that,
\* never a second one, and then sends exactly one more reply, the answer the
\* call returned or the apology when it failed; then it ends.
AskEventsInOrder ==
    \A t \in Tasks :
        LET k == tasks[t]
        IN  (k.msg.cmd = "ask" /\ ~Blank(k.msg.args) /\ k.pc # "idle") =>
                /\ k.pc \in {"thinking_sent", "ask_openai", "done"}
                /\ Len(k.out) >= 1
                /\ k.out[1] = Plain("thinking")
                /\ k.pc = "thinking_sent" => (k.calls = << >> /\ Len(k.out) = 1)
                /\ k.pc = "ask_openai" =>
                        (k.calls = <<"ask_openai">> /\ Len(k.out) = 1 /\ k.resp = None)
                /\ k.pc = "done" =>
                        /\ k.calls = <<"ask_openai">>
                        /\ k.resp # None
                        /\ Len(k.out) = 2
                        /\ k.out[2].kind = "answer"
                        /\ IF ApiFailed(k)
                           THEN k.out[2].text = Apology
                           ELSE Trimmed(k.resp[1].content[1], k.out[2].text)

\* /ask a has been answered with the thinking notice and then with the
\* answer of a completion call that returned " a"
AskEventsInOrderWitness ==
    \E t \in Tasks :
        LET k == tasks[t]
        IN  /\ k.msg.cmd = "ask"
            /\ k.pc = "done"
            /\ k.calls = <<"ask_openai">>
            /\ k.resp = Some([raises |-> FALSE, content |-> Some(<<" ", "a">>)])
            /\ k.out = <<Plain("thinking"), Reply("answer", 0, << >>, <<"a">>, FALSE)>>

\* The slots whose /addgoal handler has had its add_goal return
Created == {t \in DOMAIN tasks : tasks[t].pc \in {"add_goal_ret", "done"}
                                    /\ tasks[t].calls = <<"add_goal">>}

\* C14: however the handlers of two /addgoal messages interleave, each
\* add_goal inserts a row of its own: the two ids differ, the row under the
\* id a handler got has that handler's sender and text and is not lost to
\* the other insert, the reply of each handler carries the id of its own
\* row, and no id is handed out twice.
AddGoalAtomicUnderInterleaving ==
    /\ \A t \in Created :
            LET k == tasks[t]
            IN  /\ k.goal_id \in DOMAIN k.after
                /\ k.goal_id \notin DOMAIN k.before
                /\ k.after[k.goal_id].user_id = k.user
                /\ k.after[k.goal_id].text = k.text
                /\ k.goal_id \in DOMAIN goals
                /\ goals[k.goal_id] = k.after[k.goal_id]
                /\ k.pc = "done" => k.out = <<Reply("added", k.goal_id, << >>, << >>, FALSE)>>
    /\ \A t, o \in Created : t # o => tasks[t].goal_id # tasks[o].goal_id
    /\ \A i, j \in DOMAIN issued : i # j => issued[i] # issued[j]
    /\ Len(issued) = Cardinality(DOMAIN goals)

\* Two /addgoal handlers of different senders overlapped: the second insert
\* ran before the first handler resumed, and both have replied
AddGoalAtomicUnderInterleavingWitness ==
    \E t, o \in Created :
        /\ t # o
        /\ tasks[t].user # tasks[o].user
        /\ tasks[t].pc = "done"
        /\ tasks[o].pc = "done"
        /\ tasks[o].goal_id = tasks[t].goal_id + 1
        /\ tasks[o].goal_id \in DOMAIN goals
        /\ tasks[t].out[1].id = tasks[t].goal_id

\* The commands that take an argument and reach the store or the completion API
ArgCommands == {"ask", "addgoal", "done", "del"}

\* The commands a handler is registered for
KnownCommands == ArgCommands \cup {"start", "goals"}

\* C15: a handler step for a message that is none of /ask, /addgoal, /done,
\* /del leaves the table, its AUTOINCREMENT counter and the ids handed out
\* and removed as they are, and such a handler makes no call but list_goals,
\* so none to the completion API; a message that is neither a registered
\* command nor a menu-button label is answered at once, in every state, with
\* the one "choose an action from the menu" reply that carries the keyboard.
OtherMessagesChangeNothing ==
    /\ [][\A t \in DOMAIN tasks :
            (tasks'[t] # tasks[t] /\ tasks'[t].pc # "idle"
                /\ tasks'[t].msg.cmd \notin ArgCommands) => UNCHANGED store]_vars
    /\ [](\A t \in DOMAIN tasks :
            LET k == tasks[t]
            IN  (k.pc # "idle" /\ k.msg.cmd \notin ArgCommands) =>
                    /\ \A i \in DOMAIN k.calls : k.calls[i] = "list_goals"
                    /\ k.resp = None
                    /\ k.after = k.before
                    /\ (k.msg.cmd \notin KnownCommands /\ k.msg.text \notin Labels) =>
                            /\ k.pc = "done"
                            /\ k.calls = << >>
                            /\ k.out = <<Reply("choose_menu", 0, << >>, << >>, TRUE)>>)

\* An unknown command has got the default reply while the table holds a goal
\* that is done, after a /del has been answered
OtherMessagesChangeNothingWitness ==
    \E t \in Tasks :
        /\ tasks[t].msg.cmd = "unknown"
        /\ tasks[t].pc = "done"
        /\ tasks[t].out[1].kind = "choose_menu"
        /\ tasks[t].out[1].menu
        /\ told.deleted # {}
        /\ \E i \in DOMAIN goals : goals[i].is_done = 1

\* What only the second /ask handler sends
SecondBlockReplies == {"ai_usage", "ai_thinking", "ai_answer", "ai_error"}

\* C16: whether or not the second /ask registration is in the dispatcher's
\* list while the bot polls, every /ask message is handled by cmd_ask, whose
\* completion call is the one of ask_openai; no handler task is ever ask_ai,
\* makes the completion call of the second block or sends one of its replies.
SecondAskHandlerNeverRuns ==
    \A t \in DOMAIN tasks :
        LET k == tasks[t]
        IN  k.pc # "idle" =>
                /\ k.handler # "ask_ai"
                /\ k.msg.cmd = "ask" => k.handler = "cmd_ask"
                /\ \A i \in DOMAIN k.calls : k.calls[i] # "create"
                /\ \A i \in DOMAIN k.out : k.out[i].kind \notin SecondBlockReplies
                /\ (k.msg.cmd = "ask" /\ k.pc = "done" /\ ~Blank(k.msg.args)) =>
                        k.calls = <<"ask_openai">>

\* With both /ask handlers registered, /ask a has been answered by cmd_ask
\* through ask_openai
SecondAskHandlerNeverRunsWitness ==
    \E t \in DOMAIN tasks :
        /\ handlers = RegisteredAll
        /\ tasks[t].msg.cmd = "ask"
        /\ tasks[t].handler = "cmd_ask"
        /\ tasks[t].pc = "done"
        /\ tasks[t].calls = <<"ask_openai">>
        /\ tasks[t].out[2].kind = "answer"

\* C17: a handler runs only once init_db is through and the table is there;
\* init_db on a data.db that has the table leaves every row and the
\* AUTOINCREMENT counter as they are; and over all restarts every id add_goal
\* hands out is greater than every id handed out before.
StartupIdempotent ==
    /\ [](\A t \in DOMAIN tasks : tasks[t].pc # "idle" => (phase = "polling" /\ table))
    /\ [][(phase = "starting" /\ phase' = "polling" /\ table) =>
              (goals' = goals /\ sqlite_sequence' = sqlite_sequence)]_vars
    /\ [](\A i, j \in DOMAIN issued : i < j => issued[i] < issued[j])

\* After a restart on a table that held goals, and whose newest goal had
\* been deleted, add_goal has inserted a further goal beside the old rows
StartupIdempotentWitness ==
    \E t \in Tasks :
        LET k == tasks[t]
        IN  /\ rebooted
            /\ k.pc = "add_goal_ret"
            /\ k.before # << >>
            /\ k.goal_id - 1 \in k.gone
            /\ \A i \in DOMAIN k.before : i < k.goal_id /\ k.after[i] = k.before[i]

====
